---- MODULE Spec2Model ----
(***************************************************************************)
(* Model of the Telegram relay bot (bot.py, database.py).                  *)
(*                                                                         *)
(* Every update is processed by aiogram in its own asyncio task            *)
(* (Dispatcher.start_polling, bot.py:696), so handlers interleave at their *)
(* await points and nowhere else: one action of this model is the code a   *)
(* handler runs between two awaits.                                        *)
(*                                                                         *)
(* Failure model: a transport call can fail exactly where the source       *)
(* guards it with try/except (bot.py:232, 260, 504, 522); a call to the    *)
(* store can fail (sqlite3 raising).  The other transport calls go to the  *)
(* operator chat (or answer the chat that has just written) and are        *)
(* modelled as delivered.  The clock behind CURRENT_TIMESTAMP never goes   *)
(* back.                                                                   *)
(***************************************************************************)
EXTENDS Integers, Sequences, FiniteSets, TLC

\* ------------------------------------------------------------- bounds
\* Handler instances (updates received) in one run.
MaxTasks == 3
\* Largest value of the clock (seconds) behind CURRENT_TIMESTAMP.
MaxClock == 1
\* Rows appended in the store-only specification SpecDB.
MaxRows == 3
\* Largest LIMIT the history properties are evaluated for.
MaxLimit == 2

\* ------------------------------------------------------------- values
\* Optional[T]: None is the empty tuple, a present value x is <<x>>.
None == <<>>
Some(x) == <<x>>
Get(o) == o[1]

\* Python truthiness of an Optional[str]: None and "" are falsy.
Truthy(o) == o # None /\ Get(o) # <<>>

\* settings.admin_chat_id
ADMIN == 100
\* The chats of the two clients that talk to the bot.
Users == {1, 2}

\* Strings are tuples of one-character strings.
S_reply == <<"r", "e", "p", "l", "y", ":">>
S_write == <<"w", "r", "i", "t", "e", ":">>
S_history == <<"h", "i", "s", "t", "o", "r", "y", ":">>
S_start == <<"s", "t", "a", "r", "t">>
S_clients == <<"c", "l", "i", "e", "n", "t", "s">>
S_hist == <<"h", "i", "s", "t", "o", "r", "y">>
S_clients_list == <<"c", "l", "i", "e", "n", "t", "s", "_", "l", "i", "s", "t">>
S_client_detail ==
    <<"c", "l", "i", "e", "n", "t", "_", "d", "e", "t", "a", "i", "l", ":">>

StartsWith(s, p) == Len(s) >= Len(p) /\ SubSeq(s, 1, Len(p)) = p

\* str.split(sep) for a one-character separator: the list of fields.
RECURSIVE Split(_, _)
Split(s, sep) ==
    IF \A i \in 1..Len(s) : s[i] # sep
    THEN <<s>>
    ELSE LET k == CHOOSE i \in 1..Len(s) :
                      s[i] = sep /\ \A j \in 1..(i - 1) : s[j] # sep
         IN <<SubSeq(s, 1, k - 1)>> \o Split(SubSeq(s, k + 1, Len(s)), sep)

\* str.split() without argument: fields separated by runs of blanks.
RECURSIVE SplitBlank(_)
SplitBlank(s) ==
    IF s = <<>> THEN <<>>
    ELSE IF s[1] = " " THEN SplitBlank(Tail(s))
    ELSE IF \A i \in 1..Len(s) : s[i] # " " THEN <<s>>
    ELSE LET k == CHOOSE i \in 1..Len(s) :
                      s[i] = " " /\ \A j \in 1..(i - 1) : s[j] # " "
         IN <<SubSeq(s, 1, k - 1)>> \o SplitBlank(SubSeq(s, k + 1, Len(s)))

DigitChars == {"0", "1", "2", "3", "4", "5", "6", "7", "8", "9"}
DigitVal(c) ==
    CASE c = "0" -> 0 [] c = "1" -> 1 [] c = "2" -> 2 [] c = "3" -> 3
      [] c = "4" -> 4 [] c = "5" -> 5 [] c = "6" -> 6 [] c = "7" -> 7
      [] c = "8" -> 8 [] c = "9" -> 9

RECURSIVE Strip(_)
Strip(s) ==
    IF s = <<>> THEN s
    ELSE IF s[1] = " " THEN Strip(Tail(s))
    ELSE IF s[Len(s)] = " " THEN Strip(SubSeq(s, 1, Len(s) - 1))
    ELSE s

RECURSIVE DigitsValue(_)
DigitsValue(s) ==
    IF s = <<>> THEN 0
    ELSE 10 * DigitsValue(SubSeq(s, 1, Len(s) - 1)) + DigitVal(s[Len(s)])

\* Python int(str): blanks stripped, an optional sign, then decimal digits.
\* None stands for ValueError.
int(s) ==
    LET t == Strip(s)
        signed == t # <<>> /\ t[1] \in {"-", "+"}
        d == IF signed THEN Tail(t) ELSE t
    IN IF d = <<>> \/ \E i \in 1..Len(d) : d[i] \notin DigitChars
       THEN None
       ELSE Some(IF signed /\ t[1] = "-" THEN 0 - DigitsValue(d) ELSE DigitsValue(d))

\* ParseCallbackUserId with the mutation that the characters that are no
\* digits are dropped instead of raising ValueError.
ParseCallbackUserId_Lenient(data) ==
    LET parts == Split(data, ":")
        isDigit(c) == c \in DigitChars
    IN IF Len(parts) < 2 THEN None ELSE Some(DigitsValue(SelectSeq(parts[2], isDigit)))

\* int(callback.data.split(":")[1]) under try/except (ValueError, IndexError).
ParseCallbackUserId(data) ==
    LET parts == Split(data, ":")
    IN IF Len(parts) < 2 THEN None ELSE int(parts[2])

DigitChar(d) ==
    CASE d = 0 -> "0" [] d = 1 -> "1" [] d = 2 -> "2" [] d = 3 -> "3"
      [] d = 4 -> "4" [] d = 5 -> "5" [] d = 6 -> "6" [] d = 7 -> "7"
      [] d = 8 -> "8" [] d = 9 -> "9"

\* Python str(int), as the f-strings of the callback data format an id.
RECURSIVE str(_)
str(n) ==
    IF n < 0 THEN <<"-">> \o str(0 - n)
    ELSE IF n < 10 THEN <<DigitChar(n)>>
    ELSE str(n \div 10) \o <<DigitChar(n % 10)>>

\* The callback data of the inline buttons.
ReplyButton(user_id) == S_reply \o str(user_id)
HistoryButton(user_id) == S_history \o str(user_id)
WriteButton(user_id) == S_write \o str(user_id)
ClientDetailButton(user_id) == S_client_detail \o str(user_id)

\* bot.py:211-214: the keyboard under the notification of a client's message.
NotificationKeyboard(user_id) == {ReplyButton(user_id), HistoryButton(user_id)}

\* bot.py:115-117: the operator's menu.
MenuKeyboard == {S_clients_list}

\* bot.py:415-421: the actions for one client.
DetailKeyboard(user_id) ==
    {HistoryButton(user_id), WriteButton(user_id), S_clients_list}


\* ------------------------------------------------------------- state
VARIABLES
    pending_replies,        \* bot.py:74   dict: operator chat id -> prompt message id
    current_reply_user_id,  \* bot.py:471  Optional[int]
    messages,               \* database.py:20  the rows of table messages, by id
    now,                    \* the clock read by DEFAULT CURRENT_TIMESTAMP
    operator_chat,          \* what the bot has delivered to the operator chat; a
                            \* message's id is its position
    user_outbox,            \* what the bot has delivered to client chats
    deleted,                \* ids of operator-chat messages the bot has deleted
    tasks,                  \* the handler instances, in order of arrival
    invoked,                \* targets of the Reply/Write presses since the last
                            \* operator text (history, read by no handler)
    history_result,         \* what Database.get_history returned in the step that
                            \* led to this state; None when the step made no call
    clients_result          \* the same for Database.list_clients

vars == <<pending_replies, current_reply_user_id, messages, now, operator_chat,
          user_outbox, deleted, tasks, invoked, history_result, clients_result>>

botVars == <<pending_replies, current_reply_user_id, operator_chat, user_outbox,
             deleted, tasks, invoked>>

\* ------------------------------------------------------------- store
\* add_message whose INSERT is never committed: the store stays as it was.
add_message_NoCommit(rows, user_id, username, full_name, direction, message_type, content, file_id, clock) ==
    rows

\* INSERT INTO messages (...): id is AUTOINCREMENT (rows are never deleted, so
\* it is the row count plus one), created_at defaults to CURRENT_TIMESTAMP.
add_message(rows, user_id, username, full_name, direction, message_type, content, file_id, clock) ==
    Append(rows, [id |-> Len(rows) + 1,
                  user_id |-> user_id,
                  username |-> username,
                  full_name |-> full_name,
                  direction |-> direction,
                  message_type |-> message_type,
                  content |-> content,
                  file_id |-> file_id,
                  created_at |-> clock])

\* ScanBefore with the tie among equal created_at reversed: the order a sort
\* without the index's rowid suffix could give.
ScanBefore_TieAscending(a, b) ==
    \/ a.created_at > b.created_at
    \/ a.created_at = b.created_at /\ a.id < b.id

\* ORDER BY created_at DESC is served by idx_messages_user(user_id, created_at)
\* scanned backwards (SEARCH messages USING INDEX idx_messages_user): index
\* entries of equal (user_id, created_at) are kept in rowid order, so the
\* backward scan yields a before b when a's (created_at, id) is the larger.
ScanBefore(a, b) ==
    \/ a.created_at > b.created_at
    \/ a.created_at = b.created_at /\ a.id > b.id

RECURSIVE IndexScanDesc(_)
IndexScanDesc(S) ==
    IF S = {} THEN <<>>
    ELSE LET first == CHOOSE a \in S : \A b \in S \ {a} : ScanBefore(a, b)
         IN <<first>> \o IndexScanDesc(S \ {first})

Reverse(s) == [i \in 1..Len(s) |-> s[Len(s) + 1 - i]]

\* SQLite's LIMIT: a negative limit is no limit.
Limit(s, n) == IF n < 0 \/ n >= Len(s) THEN s ELSE SubSeq(s, 1, n)

\* The rows get_history selects, after rows.reverse().
HistoryRows(rows, user_id, limit) ==
    Reverse(Limit(IndexScanDesc({rows[i] : i \in {j \in 1..Len(rows) :
                                                   rows[j].user_id = user_id}}),
                  limit))

\* (direction, message_type, COALESCE(content, file_id) or "", created_at)
HistoryTuple(r) ==
    LET body == IF r.content # None THEN r.content ELSE r.file_id
    IN <<r.direction, r.message_type, IF Truthy(body) THEN Get(body) ELSE <<>>,
         r.created_at>>

get_history(rows, user_id, limit) ==
    LET sel == HistoryRows(rows, user_id, limit)
    IN [i \in 1..Len(sel) |-> HistoryTuple(sel[i])]

\* The user ids that have rows (GROUP BY user_id).
ClientIds(rows) == {rows[i].user_id : i \in 1..Len(rows)}

RowSet(rows, user_id) ==
    {rows[i] : i \in {j \in 1..Len(rows) : rows[j].user_id = user_id}}

\* MAX(created_at) of a user's rows.
LastMessageAt(rows, user_id) ==
    CHOOSE t \in {r.created_at : r \in RowSet(rows, user_id)} :
        \A r \in RowSet(rows, user_id) : r.created_at <= t

\* NameCandidate without the two conditions: every row's name counts, the
\* NULL of the operator's rows too.
NameCandidate_Any(v) == TRUE

\* "IS NOT NULL AND <> ''" of the two name subqueries.
NameCandidate(v) == v # None /\ Get(v) # <<>>

\* SELECT username ... ORDER BY m2.created_at DESC LIMIT 1: the first row of
\* the backward index scan (SEARCH m2 USING INDEX idx_messages_user), NULL when
\* no row qualifies.
LatestUsername(rows, user_id) ==
    LET S == {r \in RowSet(rows, user_id) : NameCandidate(r.username)}
    IN IF S = {} THEN None ELSE IndexScanDesc(S)[1].username

\* The same subquery for full_name (m3).
LatestFullName(rows, user_id) ==
    LET S == {r \in RowSet(rows, user_id) : NameCandidate(r.full_name)}
    IN IF S = {} THEN None ELSE IndexScanDesc(S)[1].full_name

\* ORDER BY latest.last_message DESC: the groups leave the index scan in
\* user_id order and the sorter keeps that order among equal keys.
RosterBefore(a, b) ==
    \/ a.last_message > b.last_message
    \/ a.last_message = b.last_message /\ a.user_id < b.user_id

RECURSIVE RosterSort(_)
RosterSort(S) ==
    IF S = {} THEN <<>>
    ELSE LET first == CHOOSE a \in S : \A b \in S \ {a} : RosterBefore(a, b)
         IN <<first>> \o RosterSort(S \ {first})

\* Database.list_clients: (user_id, username, full_name, last_message).
list_clients(rows) ==
    RosterSort({[user_id |-> u,
                 username |-> LatestUsername(rows, u),
                 full_name |-> LatestFullName(rows, u),
                 last_message |-> LastMessageAt(rows, u)] : u \in ClientIds(rows)})

\* ------------------------------------------------------------- updates
\* An incoming message (aiogram Message) with the fields the handlers read.
Message(chat, text, caption, photo, document, voice, video, reply_to) ==
    [kind |-> "message", chat |-> chat, text |-> text, caption |-> caption,
     photo |-> photo, document |-> document, voice |-> voice, video |-> video,
     reply_to |-> reply_to, data |-> None]

\* A pressed inline button (aiogram CallbackQuery); buttons live in the
\* operator chat.
Callback(data) ==
    [kind |-> "callback", chat |-> ADMIN, text |-> None, caption |-> None,
     photo |-> None, document |-> None, voice |-> None, video |-> None,
     reply_to |-> None, data |-> Some(data)]

TextMessage(chat, text, reply_to) ==
    Message(chat, Some(text), None, None, None, None, None, reply_to)

\* message.from_user of a client chat: user 1 has a username and a name,
\* user 2 has neither.
Username(u) == IF u = 1 THEN Some(<<"u", "1">>) ELSE None
FirstName(u) == IF u = 1 THEN Some(<<"A">>) ELSE None
LastName(u) == None

\* " ".join(filter(None, [first_name, last_name])) or None
get_user_info(u) ==
    LET parts == SelectSeq(<<FirstName(u), LastName(u)>>, Truthy)
        joined == IF Len(parts) = 0 THEN <<>>
                  ELSE IF Len(parts) = 1 THEN Get(parts[1])
                  ELSE Get(parts[1]) \o <<" ">> \o Get(parts[2])
    IN [user_id |-> u, username |-> Username(u),
        full_name |-> IF joined = <<>> THEN None ELSE Some(joined)]

\* F.text.startswith("/"): false when there is no text.
TextStartsWithSlash(m) == m.text # None /\ StartsWith(Get(m.text), <<"/">>)

\* aiogram's Command(name): the text's first blank-separated field is
\* "/" + name.
IsCommand(m, name) ==
    /\ TextStartsWithSlash(m)
    /\ SplitBlank(Get(m.text)) # <<>>
    /\ SplitBlank(Get(m.text))[1] = <<"/">> \o name

\* is_client_message without the comparison with the operator's chat.
is_client_message_Any(m) == TRUE

\* bot.py:153
is_client_message(m) == m.chat # ADMIN

\* bot.py:474
is_admin_chat(m) == m.chat = ADMIN

\* The filters of handle_admin_message without ~F.text.startswith("/").
AdminTextFilter_NoSlashCheck(m) == is_admin_chat(m) /\ Truthy(m.text)

\* The filters of handle_admin_message: is_admin_chat, F.text,
\* ~F.text.startswith("/").
AdminTextFilter(m) ==
    is_admin_chat(m) /\ Truthy(m.text) /\ ~TextStartsWithSlash(m)

\* The filters of handle_client_message (every chat is private).
ClientFilter(m) == ~TextStartsWithSlash(m) /\ is_client_message(m)

\* The router: the first handler, in registration order, whose filters pass.
Dispatch(u) ==
    IF u.kind = "message"
    THEN IF IsCommand(u, S_start) THEN "start_command"
         ELSE IF ClientFilter(u) THEN "handle_client_message"
         ELSE IF AdminTextFilter(u) THEN "handle_admin_message"
         ELSE IF IsCommand(u, S_clients) /\ is_admin_chat(u) THEN "clients_command"
         ELSE IF IsCommand(u, S_hist) /\ is_admin_chat(u) THEN "history_command"
         ELSE "unhandled"
    ELSE IF StartsWith(Get(u.data), S_reply) THEN "button_reply"
         ELSE IF StartsWith(Get(u.data), S_history) THEN "button_history"
         ELSE IF Get(u.data) = S_clients_list THEN "button_clients_list"
         ELSE IF StartsWith(Get(u.data), S_client_detail) THEN "button_client_detail"
         ELSE IF StartsWith(Get(u.data), S_write) THEN "button_write"
         ELSE "unhandled"

\* Classify with the branches of photo and document in the other order.
Classify_DocumentFirst(m) ==
    IF Truthy(m.text)
    THEN [content |-> m.text, message_type |-> "text", file_id |-> None]
    ELSE IF m.document # None
    THEN [content |-> m.caption, message_type |-> "document", file_id |-> m.document]
    ELSE IF Truthy(m.photo)
    THEN [content |-> m.caption, message_type |-> "photo",
          file_id |-> Some(Get(m.photo)[Len(Get(m.photo))])]
    ELSE IF m.voice # None
    THEN [content |-> None, message_type |-> "voice", file_id |-> m.voice]
    ELSE IF m.video # None
    THEN [content |-> m.caption, message_type |-> "video", file_id |-> m.video]
    ELSE [content |-> None, message_type |-> "unknown", file_id |-> None]

\* handle_client_message, bot.py:170-194: (content, message_type, file_id).
\* message.photo is the list of the sizes of the photo, its last entry the
\* largest; the other attachments are one object each.
Classify(m) ==
    IF Truthy(m.text)
    THEN [content |-> m.text, message_type |-> "text", file_id |-> None]
    ELSE IF Truthy(m.photo)
    THEN [content |-> m.caption, message_type |-> "photo",
          file_id |-> Some(Get(m.photo)[Len(Get(m.photo))])]
    ELSE IF m.document # None
    THEN [content |-> m.caption, message_type |-> "document", file_id |-> m.document]
    ELSE IF m.voice # None
    THEN [content |-> None, message_type |-> "voice", file_id |-> m.voice]
    ELSE IF m.video # None
    THEN [content |-> m.caption, message_type |-> "video", file_id |-> m.video]
    ELSE [content |-> None, message_type |-> "unknown", file_id |-> None]

\* ------------------------------------------------------------- Init
Init ==
    /\ pending_replies = <<>>
    /\ current_reply_user_id = None
    /\ messages = <<>>
    /\ now = 0
    /\ operator_chat = <<>>
    /\ user_outbox = <<>>
    /\ deleted = {}
    /\ tasks = <<>>
    /\ invoked = <<>>
    /\ history_result = None
    /\ clients_result = None

\* A second passes.
Tick ==
    /\ now < MaxClock
    /\ now' = now + 1
    /\ history_result' = None
    /\ clients_result' = None
    /\ UNCHANGED <<messages, botVars>>

\* ------------------------------------------------------------- tasks
\* One handler instance.  pc names the await the handler is suspended at;
\* consecutive awaits between which the handler touches nothing but its own
\* locals are one suspension.  user_id and prompt_message_id are the handler's
\* locals.  sent is the outcome of forwarding to the client, alert whether
\* callback.answer(..., show_alert=True) was called.  row, on, awaiting, inv
\* and quiet are read by no handler: the id of the row the handler inserted
\* for its update, the operator-chat message whose button was pressed, and
\* what held when the update arrived: the pending target, the
\* Reply/Write presses since the last operator text, whether every earlier
\* handler had finished, and the handlers that had not.
Running(t) == t.pc \notin {"done", "raised"}

\* bot.py:492-495 with the mutation that an operator text outside a reply
\* flow goes to the user of the newest row.
ReplyTarget_LastClient(pr, cur) ==
    IF ADMIN \notin DOMAIN pr \/ cur = None
    THEN IF messages = <<>> THEN None ELSE Some(messages[Len(messages)].user_id)
    ELSE cur

\* bot.py:492-495: the user the operator's text is for, None when
\* "settings.admin_chat_id not in pending_replies or current_reply_user_id is
\* None".
ReplyTarget(pr, cur) ==
    IF ADMIN \notin DOMAIN pr \/ cur = None THEN None ELSE cur

\* pending_replies[settings.admin_chat_id], read where the key is present.
PromptId(pr) == IF ADMIN \in DOMAIN pr THEN Some(pr[ADMIN]) ELSE None

\* pending_replies[k] = v
DictSet(pr, k, v) == [x \in DOMAIN pr \cup {k} |-> IF x = k THEN v ELSE pr[x]]

\* DictDel that leaves the entry in place.
DictDel_Keep(pr, k) == pr

\* del pending_replies[k], for a key that is present.
DictDel(pr, k) ==
    IF DOMAIN pr \ {k} = {} THEN <<>> ELSE [x \in DOMAIN pr \ {k} |-> pr[x]]

\* The target of the pending reply, None when there is none.
Awaiting ==
    IF current_reply_user_id # None /\ ADMIN \in DOMAIN pending_replies
    THEN current_reply_user_id
    ELSE None

NewTask(handler, update, pc, user_id, prompt, alert) ==
    [handler |-> handler, update |-> update, pc |-> pc, user_id |-> user_id,
     prompt_message_id |-> prompt, sent |-> "none", alert |-> alert,
     row |-> None,
     on |-> None,
     awaiting |-> Awaiting,
     inv |-> invoked,
     quiet |-> \A i \in 1..Len(tasks) : ~Running(tasks[i]),
     running |-> {i \in 1..Len(tasks) : Running(tasks[i])}]

\* A message the bot delivered to the operator chat, with the callback data
\* of the inline buttons under it.
SayWith(kind, user, t, buttons) ==
    [kind |-> kind, user |-> user, task |-> t, buttons |-> buttons]

\* ... one without buttons.
Say(kind, user, t) == SayWith(kind, user, t, {})

\* A message the bot delivered to a client chat.
Deliver(chat, kind, text, t) ==
    [chat |-> chat, kind |-> kind, text |-> text, task |-> t]

\* ------------------------------------------------------------- inputs
T_hi == <<"h", "i">>
T_yo == <<"y", "o">>
T_start == <<"/">> \o S_start
T_clients == <<"/">> \o S_clients
T_history1 == <<"/">> \o S_hist \o <<" ", "1">>
T_other == <<"/", "x">>
\* The file ids of the sizes of a photo, the largest last.
PhotoSizes == <<<<"s">>, <<"p">>>>

\* Operator-chat messages that notify of a client's message.
Notifications ==
    {n \in 1..Len(operator_chat) : operator_chat[n].kind \in {"notification", "copy"}}

\* What the operator can send: a text, a command, a photo; a text can be sent
\* as a reply to a notification.
OperatorUpdates ==
    {TextMessage(ADMIN, t, None) : t \in {T_hi, T_start, T_clients, T_history1, T_other}}
    \cup {TextMessage(ADMIN, T_hi, Some(n)) : n \in Notifications}
    \cup {Message(ADMIN, None, None, Some(PhotoSizes), None, None, None, None)}

\* What a client can send: a text, /start, another command, a photo with a
\* caption.
ClientUpdates ==
    UNION {{TextMessage(u, T_yo, None), TextMessage(u, T_start, None),
            TextMessage(u, T_other, None),
            Message(u, None, Some(<<"c">>), Some(PhotoSizes), None, None, None, None)}
           : u \in Users}

\* The messages the router is handed.
MessageUpdates == OperatorUpdates \cup ClientUpdates

\* The callback data of the buttons the operator can press, and malformed
\* ones.
CallbackUpdates ==
    {Callback(p \o a) : p \in {S_reply, S_write}, a \in {<<"1">>, <<"2">>, <<"x">>}}
    \cup {Callback(S_history \o a) : a \in {<<"1">>, <<>>}}
    \cup {Callback(S_clients_list), Callback(S_client_detail \o <<"1">>)}

Arrive(t) == tasks' = Append(tasks, t)

Step(i, t) == tasks' = [tasks EXCEPT ![i] = t]

\* ------------------------------------------------------------- handle_admin_message
\* The except branch of bot.py:541-545 with the mutation that it also clears
\* the pending reply.
PendingAfterError_Cleared(pr, cur) ==
    <<IF ADMIN \in DOMAIN pr THEN DictDel(pr, ADMIN) ELSE pr, None>>

\* bot.py:541-545: the except branch logs and notifies; it assigns neither
\* pending_replies nor current_reply_user_id.
PendingAfterError(pr, cur) == <<pr, cur>>

\* bot.py:506-509 with the mutation that the text is sent twice.
Forwarded_Twice(i) ==
    <<Deliver(Get(tasks[i].user_id), "reply", Get(tasks[i].update.text), i),
      Deliver(Get(tasks[i].user_id), "reply", Get(tasks[i].update.text), i)>>

\* bot.py:506-509: bot.send_message(chat_id=user_id, text=reply_text), once.
Forwarded(i) ==
    <<Deliver(Get(tasks[i].user_id), "reply", Get(tasks[i].update.text), i)>>

\* bot.py:484-509: up to the await of the send to the client.
handle_admin_message ==
    /\ Len(tasks) < MaxTasks
    /\ \E m \in MessageUpdates :
          /\ Dispatch(m) = "handle_admin_message"
          /\ LET target == ReplyTarget(pending_replies, current_reply_user_id)
                 prompt == PromptId(pending_replies)
                 id == Len(tasks) + 1
             IN IF target = None
                THEN /\ Arrive(NewTask("handle_admin_message", m, "done", None,
                                       None, FALSE))
                     /\ UNCHANGED operator_chat
                ELSE IF ~Truthy(m.text)
                THEN /\ Arrive(NewTask("handle_admin_message", m, "done", target,
                                       prompt, FALSE))
                     /\ operator_chat' = Append(operator_chat,
                                                Say("rejection", None, id))
                ELSE /\ Arrive(NewTask("handle_admin_message", m, "await_send",
                                       target, prompt, FALSE))
                     /\ UNCHANGED operator_chat
    /\ invoked' = <<>>
    /\ history_result' = None
    /\ clients_result' = None
    /\ UNCHANGED <<pending_replies, current_reply_user_id, messages, now,
                   user_outbox, deleted>>

\* StoredTarget that reads current_reply_user_id again after the send instead
\* of the handler's local.
StoredTarget_Reread(i) ==
    IF current_reply_user_id # None THEN Get(current_reply_user_id)
    ELSE Get(tasks[i].user_id)

\* bot.py:512-513: the row is inserted under the local user_id that was read
\* when the handler started.
StoredTarget(i) == Get(tasks[i].user_id)

AtSend(i) ==
    /\ i \in 1..Len(tasks)
    /\ tasks[i].handler = "handle_admin_message"
    /\ tasks[i].pc = "await_send"

\* bot.py:506-526: the send returned, the row is inserted, delete_message is
\* awaited.
admin_sent(i) ==
    /\ AtSend(i)
    /\ user_outbox' = user_outbox \o Forwarded(i)
    /\ messages' = add_message(messages, StoredTarget(i), None, None,
                               "from_admin", "text", tasks[i].update.text, None,
                               now)
    /\ Step(i, [tasks[i] EXCEPT !.pc = "await_confirm", !.sent = "ok",
                                !.row = Some(Len(messages) + 1)])
    /\ history_result' = None
    /\ clients_result' = None
    /\ UNCHANGED <<pending_replies, current_reply_user_id, now, operator_chat,
                   deleted, invoked>>

\* bot.py:506-519, 541-545: the send returned, db.add_message raised.
admin_store_error(i) ==
    /\ AtSend(i)
    /\ user_outbox' = user_outbox \o Forwarded(i)
    /\ pending_replies' = PendingAfterError(pending_replies, current_reply_user_id)[1]
    /\ current_reply_user_id'
           = PendingAfterError(pending_replies, current_reply_user_id)[2]
    /\ operator_chat' = Append(operator_chat, Say("failure", tasks[i].user_id, i))
    /\ Step(i, [tasks[i] EXCEPT !.pc = "done", !.sent = "ok"])
    /\ history_result' = None
    /\ clients_result' = None
    /\ UNCHANGED <<messages, now, deleted, invoked>>

\* bot.py:506-509, 541-545: the send to the client raised.
admin_send_error(i) ==
    /\ AtSend(i)
    /\ pending_replies' = PendingAfterError(pending_replies, current_reply_user_id)[1]
    /\ current_reply_user_id'
           = PendingAfterError(pending_replies, current_reply_user_id)[2]
    /\ operator_chat' = Append(operator_chat, Say("failure", tasks[i].user_id, i))
    /\ Step(i, [tasks[i] EXCEPT !.pc = "done", !.sent = "failed"])
    /\ history_result' = None
    /\ clients_result' = None
    /\ UNCHANGED <<messages, now, user_outbox, deleted, invoked>>

AtConfirm(i) ==
    /\ i \in 1..Len(tasks)
    /\ tasks[i].handler = "handle_admin_message"
    /\ tasks[i].pc = "await_confirm"

\* bot.py:522-528: delete_message either removes the prompt or raises (it
\* raises when the prompt is already gone); both ways the handler goes on.
PromptDeleted(i) ==
    \E ok \in BOOLEAN :
        /\ ok => Get(tasks[i].prompt_message_id) \notin deleted
        /\ deleted' = IF ok THEN deleted \cup {Get(tasks[i].prompt_message_id)}
                      ELSE deleted

\* bot.py:521-545: the confirmation was delivered; the state is cleared.
\* del pending_replies[...] raises KeyError when the key is gone, which the
\* except branch reports as a failed send.
admin_confirmed(i) ==
    /\ AtConfirm(i)
    /\ PromptDeleted(i)
    /\ IF ADMIN \in DOMAIN pending_replies
       THEN /\ pending_replies' = DictDel(pending_replies, ADMIN)
            /\ current_reply_user_id' = None
            /\ operator_chat' = Append(operator_chat,
                                       Say("confirm", tasks[i].user_id, i))
       ELSE /\ pending_replies'
                  = PendingAfterError(pending_replies, current_reply_user_id)[1]
            /\ current_reply_user_id'
                  = PendingAfterError(pending_replies, current_reply_user_id)[2]
            /\ operator_chat' = operator_chat
                                  \o <<Say("confirm", tasks[i].user_id, i),
                                       Say("failure", tasks[i].user_id, i)>>
    /\ Step(i, [tasks[i] EXCEPT !.pc = "done"])
    /\ history_result' = None
    /\ clients_result' = None
    /\ UNCHANGED <<messages, now, user_outbox, invoked>>

\* bot.py:531-533, 541-545: message.answer(confirmation) raised.
admin_confirm_error(i) ==
    /\ AtConfirm(i)
    /\ PromptDeleted(i)
    /\ pending_replies' = PendingAfterError(pending_replies, current_reply_user_id)[1]
    /\ current_reply_user_id'
           = PendingAfterError(pending_replies, current_reply_user_id)[2]
    /\ operator_chat' = Append(operator_chat, Say("failure", tasks[i].user_id, i))
    /\ Step(i, [tasks[i] EXCEPT !.pc = "done"])
    /\ history_result' = None
    /\ clients_result' = None
    /\ UNCHANGED <<messages, now, user_outbox, invoked>>

\* ------------------------------------------------------------- button_reply, button_write
\* The operator-chat messages that show a button with this callback data.
Carrying(data) ==
    {n \in 1..Len(operator_chat) :
        n \notin deleted /\ data \in operator_chat[n].buttons}

\* bot.py:260-264: callback.message.edit_reply_markup(reply_markup=None).
MarkupRemoved(n) == [operator_chat EXCEPT ![n].buttons = {}]

\* bot.py:247-272 (button_reply) and 442-459 (button_write): callback.answer(),
\* the parse of the user id, edit_reply_markup (button_reply only; its failure
\* is swallowed) and the call that sends the prompt.  An id that does not parse
\* is answered with an alert and the handler returns.  The press comes from a
\* button some message shows (on), or from callback data the operator's client
\* sends without one; removing the keyboard can fail, which is swallowed.
Press(handler) ==
    /\ Len(tasks) < MaxTasks
    /\ \E c \in CallbackUpdates :
          /\ Dispatch(c) = handler
          /\ \E on \in {None} \cup {Some(n) : n \in Carrying(Get(c.data))} :
                LET uid == ParseCallbackUserId(Get(c.data))
                IN IF uid = None
                   THEN /\ Arrive([NewTask(handler, c, "done", None, None, TRUE)
                                   EXCEPT !.on = on])
                        /\ UNCHANGED <<invoked, operator_chat>>
                   ELSE /\ Arrive([NewTask(handler, c, "await_prompt", uid, None,
                                           FALSE)
                                   EXCEPT !.on = on])
                        /\ invoked' = Append(invoked, Get(uid))
                        /\ IF handler = "button_reply" /\ on # None
                           THEN \/ operator_chat' = MarkupRemoved(Get(on))
                                \/ operator_chat' = operator_chat
                           ELSE operator_chat' = operator_chat
    /\ history_result' = None
    /\ clients_result' = None
    /\ UNCHANGED <<pending_replies, current_reply_user_id, messages, now,
                   user_outbox, deleted>>

\* bot.py:267-280 and 455-467: the prompt was delivered; its message id and
\* the user id are stored.
Prompted(handler, i) ==
    /\ i \in 1..Len(tasks)
    /\ tasks[i].handler = handler
    /\ tasks[i].pc = "await_prompt"
    /\ operator_chat' = Append(operator_chat, Say("prompt", tasks[i].user_id, i))
    /\ pending_replies' = DictSet(pending_replies, ADMIN, Len(operator_chat) + 1)
    /\ current_reply_user_id' = tasks[i].user_id
    /\ Step(i, [tasks[i] EXCEPT !.pc = "done",
                                !.prompt_message_id = Some(Len(operator_chat) + 1)])
    /\ history_result' = None
    /\ clients_result' = None
    /\ UNCHANGED <<messages, now, user_outbox, deleted, invoked>>

button_reply == Press("button_reply")

button_reply_prompted(i) == Prompted("button_reply", i)

button_write == Press("button_write")

button_write_prompted(i) == Prompted("button_write", i)

\* ------------------------------------------------------------- history, roster, menu
\* limit=20 of button_history and the default of /history.
HistoryDefaultLimit == 20
\* /history clamps its limit argument to 1..100.
HistoryLimitCap == 100

Max(a, b) == IF a > b THEN a ELSE b

Min(a, b) == IF a < b THEN a ELSE b

\* Answered with the mutation that showing something to the operator ends the
\* reply in progress.
Answered_ClearsPending(handler, u, kind, user, alert, result, roster, buttons) ==
    /\ Arrive(NewTask(handler, u, "done", user, None, alert))
    /\ operator_chat' = IF alert THEN operator_chat
                        ELSE Append(operator_chat,
                                    SayWith(kind, user, Len(tasks) + 1, buttons))
    /\ history_result' = result
    /\ clients_result' = roster
    /\ pending_replies' = <<>>
    /\ current_reply_user_id' = None
    /\ UNCHANGED <<messages, now, user_outbox, deleted, invoked>>

\* What a handler that only reads and answers the operator leaves behind: one
\* more operator-chat message, the task finished.
Answered(handler, u, kind, user, alert, result, roster, buttons) ==
    /\ Arrive(NewTask(handler, u, "done", user, None, alert))
    /\ operator_chat' = IF alert THEN operator_chat
                        ELSE Append(operator_chat,
                                    SayWith(kind, user, Len(tasks) + 1, buttons))
    /\ history_result' = result
    /\ clients_result' = roster
    /\ UNCHANGED <<pending_replies, current_reply_user_id, messages, now,
                   user_outbox, deleted, invoked>>

\* clients[:20]
RosterPageSize == 20

\* bot.py:566-589: History and Write buttons for each listed client.
ClientsKeyboard(clients) ==
    UNION {{HistoryButton(clients[k].user_id), WriteButton(clients[k].user_id)}
           : k \in 1..Len(Limit(clients, RosterPageSize))}

\* bot.py:360-371: one button per listed client.
ClientsListKeyboard(clients) ==
    {ClientDetailButton(clients[k].user_id)
     : k \in 1..Len(Limit(clients, RosterPageSize))}

HistoryResult(uid, limit) ==
    Some([user_id |-> uid, limit |-> limit, rows |-> get_history(messages, uid, limit)])

\* bot.py:284-331
button_history ==
    /\ Len(tasks) < MaxTasks
    /\ \E c \in CallbackUpdates :
          /\ Dispatch(c) = "button_history"
          /\ LET uid == ParseCallbackUserId(Get(c.data))
             IN IF uid = None
                THEN Answered("button_history", c, "alert", None, TRUE, None, None, {})
                ELSE Answered("button_history", c,
                              IF get_history(messages, Get(uid), HistoryDefaultLimit) = <<>>
                              THEN "history_empty" ELSE "history",
                              uid, FALSE, HistoryResult(Get(uid), HistoryDefaultLimit), None, {})

\* bot.py:606-667
history_command ==
    /\ Len(tasks) < MaxTasks
    /\ \E m \in MessageUpdates :
          /\ Dispatch(m) = "history_command"
          /\ LET parts == SplitBlank(Get(m.text))
                 uid == int(parts[2])
                 arg == int(parts[3])
                 limit == IF Len(parts) >= 3 /\ arg # None
                          THEN Max(1, Min(HistoryLimitCap, Get(arg)))
                          ELSE HistoryDefaultLimit
             IN IF Len(parts) < 2
                THEN Answered("history_command", m, "usage", None, FALSE, None, None, {})
                ELSE IF uid = None
                THEN Answered("history_command", m, "not_a_number", None, FALSE, None, None, {})
                ELSE Answered("history_command", m,
                              IF get_history(messages, Get(uid), limit) = <<>>
                              THEN "history_empty" ELSE "history",
                              uid, FALSE, HistoryResult(Get(uid), limit), None, {})

\* bot.py:553-599: the roster, or "no clients yet".
clients_command ==
    /\ Len(tasks) < MaxTasks
    /\ \E m \in MessageUpdates :
          /\ Dispatch(m) = "clients_command"
          /\ Answered("clients_command", m,
                      IF list_clients(messages) = <<>> THEN "no_clients"
                      ELSE "clients",
                      None, FALSE, None, Some(list_clients(messages)),
                      ClientsKeyboard(list_clients(messages)))

\* bot.py:335-381
button_clients_list ==
    /\ Len(tasks) < MaxTasks
    /\ \E c \in CallbackUpdates :
          /\ Dispatch(c) = "button_clients_list"
          /\ Answered("button_clients_list", c,
                      IF list_clients(messages) = <<>> THEN "no_clients"
                      ELSE "clients",
                      None, FALSE, None, Some(list_clients(messages)),
                      ClientsListKeyboard(list_clients(messages)))

\* bot.py:385-434: the client's action menu, or "client not found".
button_client_detail ==
    /\ Len(tasks) < MaxTasks
    /\ \E c \in CallbackUpdates :
          /\ Dispatch(c) = "button_client_detail"
          /\ LET uid == ParseCallbackUserId(Get(c.data))
             IN IF uid = None
                THEN Answered("button_client_detail", c, "alert", None, TRUE, None, None, {})
                ELSE Answered("button_client_detail", c,
                              IF \E k \in 1..Len(list_clients(messages)) :
                                     list_clients(messages)[k].user_id = Get(uid)
                              THEN "detail" ELSE "not_found",
                              uid, FALSE, None, Some(list_clients(messages)),
                              IF \E k \in 1..Len(list_clients(messages)) :
                                     list_clients(messages)[k].user_id = Get(uid)
                              THEN DetailKeyboard(Get(uid)) ELSE {})

\* bot.py:106-126: /start in the operator chat shows the menu.
start_command_admin ==
    /\ Len(tasks) < MaxTasks
    /\ \E m \in OperatorUpdates :
          /\ Dispatch(m) = "start_command"
          /\ Answered("start_command", m, "menu", None, FALSE, None, None,
                      MenuKeyboard)

\* An update no handler's filters accept is dropped by the router.
unhandled ==
    /\ Len(tasks) < MaxTasks
    /\ \E u \in OperatorUpdates \cup ClientUpdates \cup CallbackUpdates :
          /\ Dispatch(u) = "unhandled"
          /\ Arrive(NewTask("unhandled", u, "done", None, None, FALSE))
    /\ history_result' = None
    /\ clients_result' = None
    /\ UNCHANGED <<pending_replies, current_reply_user_id, messages, now,
                   operator_chat, user_outbox, deleted, invoked>>

\* ------------------------------------------------------------- client messages
\* The row a client's update is stored as.
Stored(u, message_type, content, file_id) ==
    add_message(messages, get_user_info(u).user_id, get_user_info(u).username,
                get_user_info(u).full_name, "from_client", message_type, content,
                file_id, now)

\* ClientArrives with the error of db.add_message swallowed: the handler goes
\* on to notify the operator.
ClientArrives_Swallow(handler, m, message_type, content, file_id) ==
    /\ \/ /\ messages' = Stored(m.chat, message_type, content, file_id)
          /\ Arrive([NewTask(handler, m, "await_notify", Some(m.chat), None, FALSE)
                     EXCEPT !.row = Some(Len(messages) + 1)])
       \/ /\ messages' = messages
          /\ Arrive(NewTask(handler, m, "await_notify", Some(m.chat), None, FALSE))
    /\ history_result' = None
    /\ clients_result' = None
    /\ UNCHANGED <<pending_replies, current_reply_user_id, now, operator_chat,
                   user_outbox, deleted, invoked>>

\* The synchronous head of start_command (bot.py:106-136, a client's /start)
\* and of handle_client_message (bot.py:163-205): the row is inserted, or
\* sqlite3 raises and the handler ends there.
ClientArrives(handler, m, message_type, content, file_id) ==
    /\ \/ /\ messages' = Stored(m.chat, message_type, content, file_id)
          /\ Arrive([NewTask(handler, m, "await_notify", Some(m.chat), None, FALSE)
                     EXCEPT !.row = Some(Len(messages) + 1)])
       \/ /\ messages' = messages
          /\ Arrive(NewTask(handler, m, "raised", Some(m.chat), None, FALSE))
    /\ history_result' = None
    /\ clients_result' = None
    /\ UNCHANGED <<pending_replies, current_reply_user_id, now, operator_chat,
                   user_outbox, deleted, invoked>>

start_command_client ==
    /\ Len(tasks) < MaxTasks
    /\ \E m \in ClientUpdates :
          /\ Dispatch(m) = "start_command"
          /\ ClientArrives("start_command", m, "command", Some(T_start), None)

\* bot.py:139-150: the welcome to the client, then the operator is told of
\* the new user (a message without buttons).
start_command_notified(i) ==
    /\ i \in 1..Len(tasks)
    /\ tasks[i].handler = "start_command"
    /\ tasks[i].pc = "await_notify"
    /\ user_outbox' = Append(user_outbox,
                             Deliver(tasks[i].update.chat, "welcome", <<>>, i))
    /\ operator_chat' = Append(operator_chat, Say("new_user", tasks[i].user_id, i))
    /\ Step(i, [tasks[i] EXCEPT !.pc = "done"])
    /\ history_result' = None
    /\ clients_result' = None
    /\ UNCHANGED <<pending_replies, current_reply_user_id, messages, now, deleted,
                   invoked>>

handle_client_message ==
    /\ Len(tasks) < MaxTasks
    /\ \E m \in MessageUpdates :
          /\ Dispatch(m) = "handle_client_message"
          /\ ClientArrives("handle_client_message", m, Classify(m).message_type,
                           Classify(m).content, Classify(m).file_id)

\* CopyFailed with the header taken back.
CopyFailed_Retracted(chat, header) == chat

\* bot.py:232-235: message.copy_to raised, which is logged; the operator chat
\* holds the header that was sent before.
CopyFailed(chat, header) == Append(chat, header)

AtNotify(i) ==
    /\ i \in 1..Len(tasks)
    /\ tasks[i].handler = "handle_client_message"
    /\ tasks[i].pc = "await_notify"

\* bot.py:217-237: a text is notified in one message with the Reply and
\* History buttons; anything else as a header with the buttons followed by a
\* copy of the original, whose failure is logged.
client_notified(i) ==
    /\ AtNotify(i)
    /\ LET header == SayWith("notification", tasks[i].user_id, i,
                             NotificationKeyboard(get_user_info(tasks[i].update.chat).user_id))
           copy == Say("copy", tasks[i].user_id, i)
       IN IF Classify(tasks[i].update).message_type = "text"
          THEN operator_chat' = Append(operator_chat, header)
          ELSE \/ operator_chat' = operator_chat \o <<header, copy>>
               \/ operator_chat' = CopyFailed(operator_chat, header)
    /\ Step(i, [tasks[i] EXCEPT !.pc = "done"])
    /\ history_result' = None
    /\ clients_result' = None
    /\ UNCHANGED <<pending_replies, current_reply_user_id, messages, now,
                   user_outbox, deleted, invoked>>

\* ------------------------------------------------------------- Spec
Next ==
    \/ handle_admin_message
    \/ \E i \in 1..MaxTasks : admin_sent(i)
    \/ \E i \in 1..MaxTasks : admin_store_error(i)
    \/ \E i \in 1..MaxTasks : admin_send_error(i)
    \/ \E i \in 1..MaxTasks : admin_confirmed(i)
    \/ \E i \in 1..MaxTasks : admin_confirm_error(i)
    \/ button_reply
    \/ \E i \in 1..MaxTasks : button_reply_prompted(i)
    \/ button_write
    \/ \E i \in 1..MaxTasks : button_write_prompted(i)
    \/ button_history
    \/ history_command
    \/ clients_command
    \/ button_clients_list
    \/ button_client_detail
    \/ start_command_admin
    \/ start_command_client
    \/ \E i \in 1..MaxTasks : start_command_notified(i)
    \/ handle_client_message
    \/ \E i \in 1..MaxTasks : client_notified(i)
    \/ unhandled

\* The bot within one second of the clock: no handler reads the clock, which
\* only stamps the rows add_message inserts.  The store across seconds is
\* SpecDB below.
Spec == Init /\ [][Next]_vars

\* ------------------------------------------------------------- SpecContent
\* handle_client_message on one message of every shape: each of text, caption,
\* photo, document, voice and video present or absent.
ContentMessages ==
    {Message(1, text, caption, photo, document, voice, video, None) :
        text \in {None, Some(T_yo)}, caption \in {None, Some(<<"c">>)},
        photo \in {None, Some(PhotoSizes)}, document \in {None, Some(<<"d">>)},
        voice \in {None, Some(<<"o">>)}, video \in {None, Some(<<"v">>)}}

handle_content_message ==
    /\ tasks = <<>>
    /\ \E m \in ContentMessages :
          /\ Dispatch(m) = "handle_client_message"
          /\ ClientArrives("handle_client_message", m, Classify(m).message_type,
                           Classify(m).content, Classify(m).file_id)

NextContent ==
    \/ handle_content_message
    \/ \E i \in 1..MaxTasks : client_notified(i)

SpecContent == Init /\ [][NextContent]_vars

\* ------------------------------------------------------------- SpecDB
\* The store alone, driven through its interface with arbitrary arguments.
\* The argument tuples add_message is called with: a client's text, a client's
\* photo without caption, the operator's reply.
DbShapes ==
    {[direction |-> "from_client", message_type |-> "text",
      content |-> Some(<<"a">>), file_id |-> None],
     [direction |-> "from_client", message_type |-> "photo",
      content |-> None, file_id |-> Some(<<"f">>)],
     [direction |-> "from_admin", message_type |-> "text",
      content |-> Some(<<"b">>), file_id |-> None]}

DbAppend ==
    /\ Len(messages) < MaxRows
    /\ \E u \in Users, a \in DbShapes :
          messages' = add_message(messages, u, None, None, a.direction,
                                  a.message_type, a.content, a.file_id, now)
    /\ history_result' = None
    /\ clients_result' = None
    /\ UNCHANGED <<now, botVars>>

DbHistory ==
    /\ \E u \in Users, n \in 0..MaxLimit :
          history_result' = Some([user_id |-> u, limit |-> n,
                                  rows |-> get_history(messages, u, n)])
    /\ clients_result' = None
    /\ UNCHANGED <<messages, now, botVars>>

NextDB == DbAppend \/ DbHistory \/ Tick

SpecDB == Init /\ [][NextDB]_vars

\* ------------------------------------------------------------- SpecRoster
\* The store driven with the names add_message can be given: a username
\* only, another username with an empty full name, a full name only, and the
\* NULL names of the operator's rows.
RosterShapes ==
    {[direction |-> "from_client", username |-> Some(<<"u">>), full_name |-> None],
     [direction |-> "from_client", username |-> Some(<<"v">>), full_name |-> Some(<<>>)],
     [direction |-> "from_client", username |-> None, full_name |-> Some(<<"N">>)],
     [direction |-> "from_admin", username |-> None, full_name |-> None]}

RosterAppend ==
    /\ Len(messages) < MaxRows
    /\ \E u \in Users, a \in RosterShapes :
          messages' = add_message(messages, u, a.username, a.full_name,
                                  a.direction, "text", Some(<<"a">>), None, now)
    /\ history_result' = None
    /\ clients_result' = None
    /\ UNCHANGED <<now, botVars>>

RosterList ==
    /\ clients_result' = Some(list_clients(messages))
    /\ history_result' = None
    /\ UNCHANGED <<messages, now, botVars>>

NextRoster == RosterAppend \/ RosterList \/ Tick

SpecRoster == Init /\ [][NextRoster]_vars

\* ------------------------------------------------------------- claims: the store
\* The rows of user u in the order they were inserted.
RowsOf(u) ==
    LET mine(r) == r.user_id = u
    IN SelectSeq(messages, mine)

LastN(s, n) == SubSeq(s, Len(s) - Min(n, Len(s)) + 1, Len(s))

\* C10: for every user and every limit N, get_history returns exactly the last
\* N rows inserted for that user (all of them when there are fewer), oldest
\* first, rows of equal timestamp in insertion order, and no row of another
\* user.
C10_HistoryLastN ==
    \A u \in Users, n \in 1..MaxLimit :
        LET expect == LastN(RowsOf(u), n)
            got == HistoryRows(messages, u, n)
        IN /\ got = expect
           /\ \A i \in 1..Len(got) : got[i].user_id = u
           /\ \A i \in 1..(Len(got) - 1) :
                  \/ got[i].created_at < got[i + 1].created_at
                  \/ got[i].created_at = got[i + 1].created_at
                     /\ got[i].id < got[i + 1].id
           /\ get_history(messages, u, n)
                  = [i \in 1..Len(expect) |-> HistoryTuple(expect[i])]

\* C10 witness: user 1 has two rows of the same timestamp with a row of user 2
\* inserted between them, and a query with limit 1 has returned one row only:
\* the later of the two.
C10_Witness ==
    /\ history_result # None
    /\ Get(history_result).user_id = 1
    /\ Get(history_result).limit = 1
    /\ Len(RowsOf(1)) = 2
    /\ Get(history_result).rows = <<HistoryTuple(RowsOf(1)[2])>>
    /\ HistoryTuple(RowsOf(1)[1]) # HistoryTuple(RowsOf(1)[2])
    /\ \E i, j, k \in 1..Len(messages) :
          /\ i < j /\ j < k
          /\ messages[i].user_id = 1 /\ messages[j].user_id = 2
          /\ messages[k].user_id = 1
          /\ messages[i].created_at = messages[k].created_at

\* ------------------------------------------------------------- claims: reply routing
Last(q) == q[Len(q)]

\* The update is a message in the operator chat.
FromOperator(t) == t.update.kind = "message" /\ t.update.chat = ADMIN

\* ... a text that is no slash-command.
OperatorText(t) ==
    FromOperator(t) /\ Truthy(t.update.text) /\ Get(t.update.text)[1] # "/"

\* ... a text that starts with the command prefix.
OperatorCommand(t) ==
    FromOperator(t) /\ Truthy(t.update.text) /\ Get(t.update.text)[1] = "/"

\* ... a message without text.
OperatorNonText(t) == FromOperator(t) /\ ~Truthy(t.update.text)

\* Positions of what handler instance i delivered to clients as reply text,
\* and of the notices of a kind it gave the operator.
RepliesOf(i) ==
    {k \in 1..Len(user_outbox) :
        user_outbox[k].task = i /\ user_outbox[k].kind = "reply"}

NoticesOf(i, kind) ==
    {k \in 1..Len(operator_chat) :
        operator_chat[k].task = i /\ operator_chat[k].kind = kind}

\* Task i arrives in this step.
Arrives(i) == i = Len(tasks) + 1 /\ Len(tasks') = i

PendingUnchanged ==
    /\ pending_replies' = pending_replies
    /\ current_reply_user_id' = current_reply_user_id

\* C1: when Reply (or Write) was pressed for user A and then for user B with no
\* operator text between, and both presses have been handled when the
\* operator's next text arrives, the pending reply is for B and the text goes
\* to B and to nobody else.
C1_LastActionWins ==
    \A i \in 1..Len(tasks) :
        LET t == tasks[i]
        IN (/\ OperatorText(t)
            /\ t.quiet
            /\ Len(t.inv) >= 2
            /\ t.inv[Len(t.inv) - 1] # Last(t.inv))
           => /\ t.awaiting = Some(Last(t.inv))
              /\ t.user_id = Some(Last(t.inv))
              /\ \A k \in RepliesOf(i) : user_outbox[k].chat = Last(t.inv)

\* C2: an operator text that is no slash-command and arrives while a reply to
\* U is pending is routed to U; at every moment it has been delivered at most
\* once, to U only and unchanged; and when its handler has finished it has
\* been delivered exactly once or the operator has been shown a failure
\* notice for it.
C2_ForwardedExactlyOnce ==
    \A i \in 1..Len(tasks) :
        LET t == tasks[i]
        IN (OperatorText(t) /\ t.awaiting # None)
           => /\ t.handler = "handle_admin_message"
              /\ t.user_id = t.awaiting
              /\ t.pc # "raised"
              /\ Cardinality(RepliesOf(i)) <= 1
              /\ \A k \in RepliesOf(i) :
                     /\ user_outbox[k].chat = Get(t.awaiting)
                     /\ user_outbox[k].text = Get(t.update.text)
              /\ t.pc = "done"
                     => \/ Cardinality(RepliesOf(i)) = 1
                        \/ NoticesOf(i, "failure") # {}

\* C2 witness: a text for user 1 was delivered once and confirmed although
\* Reply was pressed for user 2, and handled, while its handler was running.
C2_Witness ==
    \E i, j \in 1..Len(tasks) :
        /\ i < j
        /\ OperatorText(tasks[i]) /\ tasks[i].awaiting = Some(1)
        /\ tasks[i].pc = "done"
        /\ Cardinality(RepliesOf(i)) = 1
        /\ tasks[j].handler = "button_reply" /\ tasks[j].user_id = Some(2)
        /\ \E k \in NoticesOf(j, "prompt"), c \in NoticesOf(i, "confirm") : k < c

\* C3: an operator text that arrives when no reply is pending changes nothing:
\* nothing is delivered to any client, no row is inserted, the state stays
\* idle, and its handler is finished at once, having sent nothing.
C3_IdleTextInert ==
    [][\A i \in 1..Len(tasks') :
           (/\ Arrives(i)
            /\ OperatorText(tasks'[i])
            /\ (current_reply_user_id = None \/ ADMIN \notin DOMAIN pending_replies))
           => /\ tasks'[i].pc = "done"
              /\ tasks'[i].user_id = None
              /\ user_outbox' = user_outbox
              /\ messages' = messages
              /\ operator_chat' = operator_chat
              /\ PendingUnchanged]_vars

\* C3 witness: an operator text arrived in the idle state after a client had
\* written, and nothing was delivered to any client.
C3_Witness ==
    \E i \in 1..Len(tasks) :
        /\ OperatorText(tasks[i])
        /\ tasks[i].awaiting = None
        /\ tasks[i].pc = "done"
        /\ messages # <<>>
        /\ user_outbox = <<>>
        /\ current_reply_user_id = None

\* C4: when forwarding the operator's text fails, the step that handles the
\* failure leaves pending_replies and current_reply_user_id as they are,
\* inserts no row, delivers nothing, gives the operator exactly one failure
\* notice, and the handler ends normally.
C4_FailedSendKeepsPending ==
    [][\A i \in 1..Len(tasks) :
           (tasks[i].pc = "await_send" /\ tasks'[i].sent = "failed")
           => /\ PendingUnchanged
              /\ messages' = messages
              /\ user_outbox' = user_outbox
              /\ operator_chat'
                    = Append(operator_chat, Say("failure", tasks[i].user_id, i))
              /\ tasks'[i].pc = "done"]_vars

\* C4 witness: a text failed to reach the client, and the same text sent again
\* went to the same target under the same prompt.
C4_Witness ==
    \E i, j \in 1..Len(tasks) :
        /\ i < j
        /\ tasks[i].sent = "failed" /\ tasks[j].sent = "ok"
        /\ tasks[i].update.text = tasks[j].update.text
        /\ tasks[i].user_id = tasks[j].user_id
        /\ tasks[i].prompt_message_id = tasks[j].prompt_message_id
        /\ NoticesOf(i, "failure") # {}

\* C5: an operator message without text that arrives while a reply is pending
\* is answered with a rejection notice.
C5_NonTextRejected ==
    \A i \in 1..Len(tasks) :
        (OperatorNonText(tasks[i]) /\ tasks[i].awaiting # None /\ tasks[i].pc = "done")
        => NoticesOf(i, "rejection") # {}

\* C6: an operator text sent as a reply to the notification of user A's
\* message while a reply to another user B is pending is routed to A.
C6_ReplyToWins ==
    \A i \in 1..Len(tasks) :
        LET t == tasks[i]
            n == Get(t.update.reply_to)
        IN (/\ OperatorText(t)
            /\ t.update.reply_to # None
            /\ operator_chat[n].kind \in {"notification", "copy"}
            /\ t.awaiting # None
            /\ t.awaiting # operator_chat[n].user)
           => /\ t.user_id = operator_chat[n].user
              /\ \A k \in RepliesOf(i) : Some(user_outbox[k].chat) = operator_chat[n].user

\* C7: an operator text that starts with the command prefix is never handled
\* as reply text: nothing is delivered to a client for it, and its arrival
\* leaves the pending reply, the store and the clients' chats as they are.
C7_CommandsNeverReplyText ==
    [][\A i \in 1..Len(tasks') :
           OperatorCommand(tasks'[i])
           => /\ tasks'[i].handler # "handle_admin_message"
              /\ tasks'[i].pc = "done"
              /\ tasks'[i].sent = "none"
              /\ RepliesOf(i)' = {}
              /\ Arrives(i) => /\ PendingUnchanged
                               /\ messages' = messages
                               /\ user_outbox' = user_outbox]_vars

\* C7 witness: while a reply to a user was pending the operator sent a command
\* that has a handler and one that has none, and the reply is still pending.
C7_Witness ==
    \E i, j \in 1..Len(tasks) :
        /\ OperatorCommand(tasks[i]) /\ OperatorCommand(tasks[j])
        /\ tasks[i].awaiting # None /\ tasks[j].awaiting = tasks[i].awaiting
        /\ tasks[i].handler \in {"start_command", "clients_command", "history_command"}
        /\ tasks[j].handler = "unhandled"
        /\ current_reply_user_id = tasks[i].awaiting

\* The parameter of a button: the field after the action's name.
ActionParameter(t) == Split(Get(t.update.data), ":")[2]

\* A decimal integer, with or without sign.
IsInteger(p) ==
    LET d == IF p # <<>> /\ p[1] \in {"-", "+"} THEN Tail(p) ELSE p
    IN d # <<>> /\ \A k \in 1..Len(d) : d[k] \in DigitChars

\* C8: a Reply, Write or History press whose parameter is no integer is
\* answered with the invalid-id alert and changes nothing: no prompt or other
\* message is sent, no target is set, the store is left alone.
C8_InvalidIdRejected ==
    [][\A i \in 1..Len(tasks') :
           (/\ Arrives(i)
            /\ tasks'[i].handler \in {"button_reply", "button_write", "button_history"}
            /\ ~IsInteger(ActionParameter(tasks'[i])))
           => /\ tasks'[i].alert
              /\ tasks'[i].pc = "done"
              /\ PendingUnchanged
              /\ messages' = messages
              /\ operator_chat' = operator_chat
              /\ user_outbox' = user_outbox]_vars

\* C8 witness: while a reply to a user was pending, a Write press and a History
\* press with a malformed id were rejected and the reply is still pending.
C8_Witness ==
    \E i, j \in 1..Len(tasks) :
        /\ tasks[i].handler = "button_write" /\ tasks[j].handler = "button_history"
        /\ tasks[i].alert /\ tasks[j].alert
        /\ tasks[i].awaiting # None /\ tasks[j].awaiting = tasks[i].awaiting
        /\ current_reply_user_id = tasks[i].awaiting

\* C9: a pending reply for user B changes only when a Reply/Write press
\* overwrites it or when a handler that has forwarded an operator text to B
\* clears it.
C9_PendingStaysUntilConsumed ==
    [][(current_reply_user_id # None
        /\ current_reply_user_id' # current_reply_user_id)
       => \/ \E i \in 1..Len(tasks) :
                /\ tasks[i].handler \in {"button_reply", "button_write"}
                /\ tasks[i].pc = "await_prompt" /\ tasks'[i].pc = "done"
          \/ \E i \in 1..Len(tasks) :
                /\ tasks[i].handler = "handle_admin_message"
                /\ tasks[i].pc = "await_confirm" /\ tasks'[i].pc = "done"
                /\ tasks[i].sent = "ok"
                /\ tasks[i].user_id = current_reply_user_id]_vars

\* ------------------------------------------------------------- claims: round trip
\* C11: what get_history returns for a row gives back the row as it was
\* appended: the same message_type, the row's content when it has one, the
\* row's file_id when it has one (both when it has both), and neither when it
\* has neither.  The tuple get_history returns has one place, body, for the two.
C11_RoundTrip ==
    history_result # None
    => LET h == Get(history_result)
           sel == LastN(RowsOf(h.user_id), h.limit)
       IN /\ Len(h.rows) = Len(sel)
          /\ \A i \in 1..Len(sel) :
                 /\ h.rows[i][2] = sel[i].message_type
                 /\ sel[i].content # None => h.rows[i][3] = Get(sel[i].content)
                 /\ sel[i].file_id # None => h.rows[i][3] = Get(sel[i].file_id)
                 /\ (sel[i].content = None /\ sel[i].file_id = None)
                        => h.rows[i][3] = <<>>

\* ------------------------------------------------------------- claims: the roster
\* The rows of user u that carry a name, in insertion order.
WithUsername(u) ==
    LET named(r) == r.user_id = u /\ r.username # None /\ r.username # Some(<<>>)
    IN SelectSeq(messages, named)

WithFullName(u) ==
    LET named(r) == r.user_id = u /\ r.full_name # None /\ r.full_name # Some(<<>>)
    IN SelectSeq(messages, named)

\* C12: list_clients returns one row for each user id that has rows and no
\* other; the row's username is that of the user's newest row with a username
\* that is neither NULL nor empty (NULL when there is none), its full_name is
\* chosen the same way on its own, its last_message is the time of the user's
\* newest row, and the rows come newest last_message first.
C12_Roster ==
    clients_result # None
    => LET R == Get(clients_result)
       IN /\ {R[i].user_id : i \in 1..Len(R)}
                 = {messages[k].user_id : k \in 1..Len(messages)}
          /\ \A i, j \in 1..Len(R) : i # j => R[i].user_id # R[j].user_id
          /\ \A i \in 1..Len(R) :
                 LET u == R[i].user_id
                 IN /\ R[i].username = IF WithUsername(u) = <<>> THEN None
                                       ELSE Last(WithUsername(u)).username
                    /\ R[i].full_name = IF WithFullName(u) = <<>> THEN None
                                        ELSE Last(WithFullName(u)).full_name
                    /\ R[i].last_message = Last(RowsOf(u)).created_at
          /\ \A i, j \in 1..Len(R) :
                 i < j => R[i].last_message >= R[j].last_message

\* C12 witness: a roster whose first row has a username and a full name that
\* no single row of that user carries, the user's newest row being one of the
\* operator's with NULL names.
C12_Witness ==
    /\ clients_result # None
    /\ Get(clients_result) # <<>>
    /\ LET c == Get(clients_result)[1]
       IN /\ c.username # None /\ c.full_name # None
          /\ \A k \in 1..Len(messages) :
                 messages[k].user_id = c.user_id
                 => ~(messages[k].username = c.username
                      /\ messages[k].full_name = c.full_name)
          /\ Last(RowsOf(c.user_id)).direction = "from_admin"

\* ------------------------------------------------------------- claims: inbound messages
\* The update is a message written in a client's chat.
FromClient(t) == t.update.kind = "message" /\ t.update.chat # ADMIN

\* The operator-chat messages that tell the operator of task i's update.
NotificationsOf(i) ==
    {n \in 1..Len(operator_chat) :
        operator_chat[n].task = i
        /\ operator_chat[n].kind \in {"notification", "new_user"}}

\* C13: when the handling of a message from a client's chat has finished
\* without an error, whatever the message is (text, media, /start, another
\* text that starts with a slash), a row of direction from_client has been
\* inserted for it under the sender's id and the operator has been notified
\* of it.
C13_InboundPersistedNotified ==
    \A i \in 1..Len(tasks) :
        (FromClient(tasks[i]) /\ tasks[i].pc = "done")
        => /\ tasks[i].row # None
           /\ Get(tasks[i].row) \in 1..Len(messages)
           /\ messages[Get(tasks[i].row)].user_id = tasks[i].update.chat
           /\ messages[Get(tasks[i].row)].direction = "from_client"
           /\ NotificationsOf(i) # {}

\* C14: every message that tells the operator of a client's message (a text,
\* media, a command) carries, when it is sent, a Reply button whose callback
\* data parses to the id of the client who wrote.
C14_NotificationHasReply ==
    [][\A n \in (Len(operator_chat) + 1)..Len(operator_chat') :
           operator_chat'[n].kind \in {"notification", "new_user"}
           => LET sender == tasks'[operator_chat'[n].task].update.chat
              IN /\ ReplyButton(sender) \in operator_chat'[n].buttons
                 /\ \A b \in operator_chat'[n].buttons :
                        StartsWith(b, S_reply)
                        => ParseCallbackUserId(b) = Some(sender)]_vars

\* ------------------------------------------------------------- claims: classification
\* The row a finished or suspended handler inserted for a client's message.
RowOf(i) == messages[Get(tasks[i].row)]

\* A client's content message whose row is in the store.
StoredContent(i) ==
    /\ tasks[i].handler = "handle_client_message"
    /\ tasks[i].row # None

Present(field) == field # None

\* C15 as claimed: one row is stored, and its kind is photo when there is a
\* photo, else document, else voice, else video, else text when there is a
\* text, else unknown.
C15_KindPriority ==
    \A i \in 1..Len(tasks) :
        StoredContent(i)
        => LET m == tasks[i].update
               kind == RowOf(i).message_type
           IN /\ Cardinality({j \in 1..Len(tasks) : tasks[j].row = tasks[i].row}) = 1
              /\ Present(m.photo) => kind = "photo"
              /\ (~Present(m.photo) /\ Present(m.document)) => kind = "document"
              /\ (~Present(m.photo) /\ ~Present(m.document) /\ Present(m.voice))
                     => kind = "voice"
              /\ (~Present(m.photo) /\ ~Present(m.document) /\ ~Present(m.voice)
                  /\ Present(m.video))
                     => kind = "video"
              /\ (~Present(m.photo) /\ ~Present(m.document) /\ ~Present(m.voice)
                  /\ ~Present(m.video) /\ Present(m.text))
                     => kind = "text"
              /\ (~Present(m.photo) /\ ~Present(m.document) /\ ~Present(m.voice)
                  /\ ~Present(m.video) /\ ~Present(m.text))
                     => kind = "unknown"

\* C15 amended: one row is stored, and its kind is text when there is a text,
\* else photo, else document, else voice, else video, else unknown.
C15_KindPriority_TextFirst ==
    \A i \in 1..Len(tasks) :
        StoredContent(i)
        => LET m == tasks[i].update
               kind == RowOf(i).message_type
               media == <<m.photo, m.document, m.voice, m.video>>
               kinds == <<"photo", "document", "voice", "video">>
           IN /\ Len(messages) = 1
              /\ Cardinality({j \in 1..Len(tasks) : tasks[j].row = tasks[i].row}) = 1
              /\ Present(m.text) => kind = "text"
              /\ \A k \in 1..4 :
                     (/\ ~Present(m.text)
                      /\ Present(media[k])
                      /\ \A j \in 1..(k - 1) : ~Present(media[j]))
                     => kind = kinds[k]
              /\ (~Present(m.text) /\ \A k \in 1..4 : ~Present(media[k]))
                     => kind = "unknown"

\* C15 witness: a message without text that carries a document, a voice
\* message and a video is stored as a document, and the operator has been
\* told of it.
C15_Witness ==
    \E i \in 1..Len(tasks) :
        /\ StoredContent(i)
        /\ tasks[i].pc = "done"
        /\ ~Present(tasks[i].update.text) /\ ~Present(tasks[i].update.photo)
        /\ Present(tasks[i].update.document) /\ Present(tasks[i].update.voice)
        /\ Present(tasks[i].update.video)
        /\ RowOf(i).message_type = "document"

\* The file id of the attachment a message is stored as: of a photo, the id
\* of its largest size.
AttachmentId(m, kind) ==
    CASE kind = "photo" -> Some(Last(Get(m.photo)))
      [] kind = "document" -> m.document
      [] kind = "voice" -> m.voice
      [] kind = "video" -> m.video

\* C16: a client's message without text that is stored as a photo, a
\* document, a voice message or a video and has a caption is stored in one
\* row whose content is the caption and whose file_id is the attachment's id.
C16_CaptionStored ==
    \A i \in 1..Len(tasks) :
        (/\ StoredContent(i)
         /\ ~Present(tasks[i].update.text)
         /\ Present(tasks[i].update.caption)
         /\ RowOf(i).message_type \in {"photo", "document", "voice", "video"})
        => /\ RowOf(i).content = tasks[i].update.caption
           /\ RowOf(i).file_id
                  = AttachmentId(tasks[i].update, RowOf(i).message_type)
           /\ Len(messages) = 1

\* ------------------------------------------------------------- claims: the pending reply
\* Every Reply and Write press so far came from a button that a message of the
\* bot was showing.
OnlyIssuedButtons ==
    \A i \in 1..Len(tasks) :
        tasks[i].handler \in {"button_reply", "button_write"} => tasks[i].on # None

\* C17: as long as every Reply and Write press came from a button the bot has
\* issued, a pending reply's target is the user_id of a row of direction
\* from_client.
C17_PendingTargetHasMessage ==
    (OnlyIssuedButtons /\ current_reply_user_id # None)
    => \E k \in 1..Len(messages) :
           /\ messages[k].user_id = Get(current_reply_user_id)
           /\ messages[k].direction = "from_client"

\* C17 witness: a reply is pending that was started with the Write button of
\* the roster, and no press came from elsewhere.
C17_Witness ==
    /\ OnlyIssuedButtons
    /\ current_reply_user_id # None
    /\ ADMIN \in DOMAIN pending_replies
    /\ \E i \in 1..Len(tasks) :
          /\ tasks[i].handler = "button_write"
          /\ tasks[i].pc = "done"
          /\ tasks[i].user_id = current_reply_user_id
          /\ tasks[i].prompt_message_id = Some(pending_replies[ADMIN])
          /\ operator_chat[Get(tasks[i].on)].kind = "clients"

\* C18: once the operator's text has been delivered to the client, the handler
\* does not end without clearing the pending reply, also when the insert of
\* the from_admin row, the deletion of the prompt or the confirmation fails.
C18_ClearedAfterDelivery ==
    [][\A i \in 1..Len(tasks) :
           (/\ tasks[i].handler = "handle_admin_message"
            /\ Running(tasks[i])
            /\ ~Running(tasks'[i])
            /\ tasks'[i].sent = "ok")
           => /\ current_reply_user_id' = None
              /\ ADMIN \notin DOMAIN pending_replies']_vars

\* ------------------------------------------------------------- claims: order of effects
\* C19: at every moment, each message that tells the operator of a client's
\* message (the notification, the copy of the original, the notice of a new
\* user) belongs to a handler whose row is in the store, under the sender's id
\* and with direction from_client; and a handler whose insert failed has told
\* the operator nothing and has inserted nothing.
C19_AppendBeforeNotify ==
    /\ \A n \in 1..Len(operator_chat) :
           operator_chat[n].kind \in {"notification", "copy", "new_user"}
           => LET t == tasks[operator_chat[n].task]
              IN /\ t.row # None
                 /\ Get(t.row) \in 1..Len(messages)
                 /\ messages[Get(t.row)].user_id = t.update.chat
                 /\ messages[Get(t.row)].direction = "from_client"
                 /\ Truthy(t.update.text)
                        => messages[Get(t.row)].content = t.update.text
    /\ \A i \in 1..Len(tasks) :
           (FromClient(tasks[i]) /\ tasks[i].pc = "raised")
           => /\ tasks[i].row = None
              /\ \A n \in 1..Len(operator_chat) : operator_chat[n].task # i

\* C19 witness: the insert for one client's message failed and nothing was
\* sent for it, while the same message sent again was stored and notified.
C19_Witness ==
    \E i, j \in 1..Len(tasks) :
        /\ i < j
        /\ tasks[i].handler = "handle_client_message" /\ tasks[i].pc = "raised"
        /\ tasks[j].update = tasks[i].update /\ tasks[j].pc = "done"
        /\ NotificationsOf(i) = {}
        /\ NotificationsOf(j) # {}
        /\ Len(messages) = 1

\* C20: the step that notifies the operator of a client's message without
\* text puts the header, with the Reply button, into the operator chat and the
\* copy of the original, if any, after it; when the copy fails the handler
\* still ends normally, the header stays, and the store and the pending reply
\* are as before.
C20_HeaderBeforeCopy ==
    [][\A i \in 1..Len(tasks) :
           (/\ tasks[i].handler = "handle_client_message"
            /\ ~Truthy(tasks[i].update.text)
            /\ tasks[i].pc = "await_notify"
            /\ tasks'[i].pc # "await_notify")
           => LET n == Len(operator_chat)
              IN /\ tasks'[i].pc = "done"
                 /\ Len(operator_chat') \in {n + 1, n + 2}
                 /\ SubSeq(operator_chat', 1, n) = operator_chat
                 /\ operator_chat'[n + 1].kind = "notification"
                 /\ operator_chat'[n + 1].task = i
                 /\ ReplyButton(tasks[i].update.chat) \in operator_chat'[n + 1].buttons
                 /\ Len(operator_chat') = n + 2
                        => /\ operator_chat'[n + 2].kind = "copy"
                           /\ operator_chat'[n + 2].task = i
                 /\ messages' = messages
                 /\ PendingUnchanged]_vars

\* C20 witness: a photo was notified by its header alone, the copy having
\* failed, while a reply was pending; the photo's row is in the store and the
\* reply is still pending.
C20_Witness ==
    \E i \in 1..Len(tasks) :
        /\ tasks[i].handler = "handle_client_message"
        /\ ~Truthy(tasks[i].update.text)
        /\ tasks[i].pc = "done"
        /\ NoticesOf(i, "notification") # {}
        /\ NoticesOf(i, "copy") = {}
        /\ RowOf(i).message_type = "photo"
        /\ current_reply_user_id # None
        /\ \E p \in 1..Len(operator_chat), h \in NoticesOf(i, "notification") :
               operator_chat[p].kind = "prompt" /\ p < h

\* ------------------------------------------------------------- claims: dispatch
\* Task i arrives or takes a step.
Acts(i) == i > Len(tasks) \/ tasks'[i] # tasks[i]

\* C21: every update has one handler, chosen by the chat it comes from.  A
\* message from the operator chat is never handled by a client handler's
\* client branch: no row is inserted for it, no row of direction from_client
\* carries the operator chat's id, and no notification, copy or new-user
\* notice is sent for it.  A message from another chat is never handled as
\* reply text: nothing is forwarded for it, and no step of its handler changes
\* the pending reply.
C21_DispatchByChat ==
    [][\A i \in 1..Len(tasks') :
           LET t == tasks'[i]
           IN /\ t.handler = Dispatch(t.update)
              /\ FromOperator(t)
                     => /\ t.handler # "handle_client_message"
                        /\ t.row # None
                               => messages'[Get(t.row)].direction # "from_client"
                        /\ \A k \in 1..Len(messages') :
                               messages'[k].direction = "from_client"
                               => messages'[k].user_id # ADMIN
                        /\ \A n \in 1..Len(operator_chat') :
                               operator_chat'[n].task = i
                               => operator_chat'[n].kind
                                      \notin {"notification", "copy", "new_user"}
              /\ FromClient(t)
                     => /\ t.handler # "handle_admin_message"
                        /\ t.sent = "none"
                        /\ \A k \in 1..Len(user_outbox') :
                               user_outbox'[k].task = i
                               => user_outbox'[k].kind # "reply"
                        /\ Acts(i) => PendingUnchanged]_vars

\* C21 witness: while a reply to user 1 was pending, user 2 wrote a text that
\* was stored and notified, and the operator's text that came after it was
\* forwarded to user 1; the only row of direction from_client is user 2's.
C21_Witness ==
    \E i, j \in 1..Len(tasks) :
        /\ i < j
        /\ FromClient(tasks[i]) /\ tasks[i].update.chat = 2
        /\ tasks[i].awaiting = Some(1)
        /\ tasks[i].row # None /\ tasks[i].pc = "done"
        /\ OperatorText(tasks[j]) /\ tasks[j].awaiting = Some(1)
        /\ \E k \in RepliesOf(j) : user_outbox[k].chat = 1
        /\ \A k \in 1..Len(messages) :
               messages[k].direction = "from_client" => messages[k].user_id = 2

\* ------------------------------------------------------------- claims: the two variables
\* C22: in every state a handler can be suspended in, pending_replies has the
\* operator chat's entry exactly when current_reply_user_id is set, and it has
\* no other entry.
C22_PendingVariablesAgree ==
    /\ (ADMIN \in DOMAIN pending_replies) <=> (current_reply_user_id # None)
    /\ DOMAIN pending_replies \subseteq {ADMIN}

\* C22 witness: two operator texts were handled at the same time under one
\* pending reply; the first cleared the state, the second found the entry
\* gone (it was confirmed and then reported as failed), and both variables
\* are empty.
C22_Witness ==
    /\ pending_replies = <<>>
    /\ current_reply_user_id = None
    /\ \E i, j \in 1..Len(tasks) :
          /\ i # j
          /\ OperatorText(tasks[i]) /\ OperatorText(tasks[j])
          /\ tasks[i].pc = "done" /\ tasks[j].pc = "done"
          /\ tasks[i].prompt_message_id # None
          /\ tasks[i].prompt_message_id = tasks[j].prompt_message_id
          /\ NoticesOf(i, "confirm") # {} /\ NoticesOf(i, "failure") = {}
          /\ NoticesOf(j, "confirm") # {} /\ NoticesOf(j, "failure") # {}

\* ------------------------------------------------------------- claims: overlapping texts
\* Task i has delivered its text to a client.
Delivered(i) == RepliesOf(i) # {}

\* C23: when two operator texts are handled under the same pending reply, the
\* second arriving while the handler of the first is still running, at most
\* one of the two is delivered, and neither is reported to the operator as
\* failed after it was delivered.
C23_OneTextPerAction ==
    \A i, j \in 1..Len(tasks) :
        (/\ OperatorText(tasks[i]) /\ OperatorText(tasks[j])
         /\ i \in tasks[j].running
         /\ tasks[i].user_id # None
         /\ tasks[i].user_id = tasks[j].user_id
         /\ tasks[i].prompt_message_id = tasks[j].prompt_message_id)
        => /\ ~(Delivered(i) /\ Delivered(j))
           /\ Delivered(i) => NoticesOf(i, "failure") = {}
           /\ Delivered(j) => NoticesOf(j, "failure") = {}

\* ------------------------------------------------------------- claims: the operator's rows
\* C24: every row of direction from_admin was inserted by a handler of an
\* operator text that had delivered that text to the row's user_id before,
\* and the user_id is the target that was pending when the handler started,
\* whatever Reply or Write has set since.
C24_OperatorRowAfterSend ==
    \A k \in 1..Len(messages) :
        messages[k].direction = "from_admin"
        => \E i \in 1..Len(tasks) :
               /\ OperatorText(tasks[i])
               /\ tasks[i].row = Some(k)
               /\ tasks[i].sent = "ok"
               /\ tasks[i].awaiting = Some(messages[k].user_id)
               /\ messages[k].content = tasks[i].update.text
               /\ messages[k].message_type = "text"
               /\ \E d \in RepliesOf(i) :
                      /\ user_outbox[d].chat = messages[k].user_id
                      /\ Some(user_outbox[d].text) = messages[k].content

\* C24 witness: a text was delivered to user 1 and stored under user 1
\* although, while its handler was suspended in the send, Reply was pressed
\* for user 2 and the pending reply became user 2's.
C24_Witness ==
    \E k \in 1..Len(messages), i, j \in 1..Len(tasks) :
        /\ messages[k].direction = "from_admin" /\ messages[k].user_id = 1
        /\ tasks[i].row = Some(k) /\ tasks[i].pc = "await_confirm"
        /\ i < j
        /\ tasks[j].handler = "button_reply" /\ tasks[j].pc = "done"
        /\ tasks[j].user_id = Some(2)
        /\ current_reply_user_id = Some(2)

\* ------------------------------------------------------------- claims: frame conditions
\* The handlers that show the operator a history or the roster.
ReadOnlyHandlers ==
    {"button_history", "history_command", "button_clients_list",
     "clients_command", "button_client_detail"}

\* C25: no step of the handler of a client's message (content or /start), of
\* History, of the clients list, of /clients or of /history changes
\* pending_replies or current_reply_user_id, and the steps of the history and
\* roster handlers insert no row.
C25_FrameConditions ==
    [][\A i \in 1..Len(tasks') :
           Acts(i)
           => /\ (FromClient(tasks'[i]) \/ tasks'[i].handler \in ReadOnlyHandlers)
                     => PendingUnchanged
              /\ tasks'[i].handler \in ReadOnlyHandlers
                     => messages' = messages]_vars

\* C25 witness: while a reply to user 1 was pending, the operator asked for a
\* history and was answered, and user 2 wrote and was stored; the reply to
\* user 1 is still pending.
C25_Witness ==
    \E i, j \in 1..Len(tasks) :
        /\ tasks[i].handler \in {"button_history", "history_command"}
        /\ NoticesOf(i, "history") \cup NoticesOf(i, "history_empty") # {}
        /\ tasks[i].awaiting = Some(1)
        /\ FromClient(tasks[j]) /\ tasks[j].update.chat = 2
        /\ tasks[j].awaiting = Some(1) /\ tasks[j].row # None
        /\ current_reply_user_id = Some(1)
        /\ ADMIN \in DOMAIN pending_replies

====
